---------------------------- MODULE Spec2Model ----------------------------
(***************************************************************************)
(* A model of the OpenMP control-flow-graph generator                      *)
(* (scripts/cfg_generator.py): the single-unit run of main, which reads a  *)
(* source file, extracts its OpenMP constructs, picks one of four fixed    *)
(* DOT graphs, validates it and saves it.                                  *)
(*                                                                         *)
(* Text is modelled as TLA+ strings and every test the program makes on    *)
(* text (substring, split, strip, lower, count) is computed character by   *)
(* character as Python computes it.                                        *)
(***************************************************************************)
EXTENDS Integers, Sequences, FiniteSets, TLC

(***************************************************************************)
(* Python's str operations.                                                *)
(***************************************************************************)

\* s[i-1], the i-th character (1-based) as a one-character string.
CharAt(s, i) == SubSeq(s, i, i)

\* `m in s`: m occurs in s as a contiguous substring.
Contains(m, s) ==
    \E i \in 1..(Len(s) - Len(m) + 1) : SubSeq(s, i, i + Len(m) - 1) = m

\* s.count(c) for a one-character c.
Count(c, s) == Cardinality({i \in 1..Len(s) : CharAt(s, i) = c})

\* The characters str.strip() removes (ASCII whitespace).
Whitespace == {" ", "\t", "\n", "\r", "\f"}

\* s.strip(): s without its leading and trailing whitespace.
Strip(s) ==
    LET keep == {i \in 1..Len(s) : CharAt(s, i) \notin Whitespace}
    IN  IF keep = {} THEN ""
        ELSE LET lo == CHOOSE i \in keep : \A j \in keep : i <= j
                 hi == CHOOSE i \in keep : \A j \in keep : j <= i
             IN  SubSeq(s, lo, hi)

UpperChars == "ABCDEFGHIJKLMNOPQRSTUVWXYZ"
LowerChars == "abcdefghijklmnopqrstuvwxyz"

\* The lower-case letter of each upper-case letter.
LowerOf ==
    [c \in {CharAt(UpperChars, i) : i \in 1..Len(UpperChars)} |->
        CharAt(LowerChars, CHOOSE i \in 1..Len(UpperChars) : CharAt(UpperChars, i) = c)]

\* c.lower() for one character.
LowerChar(c) == IF c \in DOMAIN LowerOf THEN LowerOf[c] ELSE c

\* s.lower(), character by character (halving keeps the recursion shallow).
RECURSIVE Lower(_)
Lower(s) ==
    IF Len(s) = 0 THEN ""
    ELSE IF Len(s) = 1 THEN LowerChar(s)
    ELSE LET h == Len(s) \div 2
         IN  Lower(SubSeq(s, 1, h)) \o Lower(SubSeq(s, h + 1, Len(s)))

\* s.split('\n'): the maximal newline-free pieces of s, in order; '' gives [''].
\* Piece k lies between the (k-1)-th and the k-th newline of s.
Split(s) ==
    LET nl == {i \in 1..Len(s) : CharAt(s, i) = "\n"}
        newline(k) ==
            IF k = 0 THEN 0
            ELSE IF k > Cardinality(nl) THEN Len(s) + 1
            ELSE CHOOSE i \in nl : Cardinality({j \in nl : j <= i}) = k
    IN  [k \in 1..(Cardinality(nl) + 1) |->
            SubSeq(s, newline(k - 1) + 1, newline(k) - 1)]

\* '\n'.join(lines).
RECURSIVE JoinLines(_)
JoinLines(lines) ==
    IF Len(lines) = 0 THEN ""
    ELSE IF Len(lines) = 1 THEN lines[1]
    ELSE lines[1] \o "\n" \o JoinLines(Tail(lines))

(***************************************************************************)
(* OpenMPCFGGenerator.extract_openmp_constructs                            *)
(***************************************************************************)

\* The five groups of the inventory, all empty (the dict the function starts from).
EmptyConstructs ==
    [parallel_regions |-> <<>>, tasks |-> <<>>, for_loops |-> <<>>,
     single_regions |-> <<>>, sync_points |-> <<>>]

Groups == {"parallel_regions", "tasks", "for_loops", "single_regions", "sync_points"}

\* The variant that classifies every line, directive or not.
IsCandidateUnchecked(line_stripped) == TRUE

\* `'#pragma omp' in line_stripped`: the line is a candidate.
IsCandidate(line_stripped) == Contains("#pragma omp", line_stripped)

\* The variant that tests the loop marker before the task marker.
ClassifyLoopBeforeTask(line_stripped) ==
    IF ~IsCandidate(line_stripped) THEN "none"
    ELSE IF Contains("parallel", line_stripped) /\ ~Contains("for", line_stripped)
         THEN "parallel_regions"
    ELSE IF Contains("for", line_stripped)
         THEN "for_loops"
    ELSE IF Contains("task", line_stripped) /\ ~Contains("taskwait", line_stripped)
         THEN "tasks"
    ELSE IF Contains("single", line_stripped)
         THEN "single_regions"
    ELSE IF \E sync \in {"barrier", "taskwait", "critical"} : Contains(sync, line_stripped)
         THEN "sync_points"
    ELSE "none"

\* The if / elif chain: the group a stripped line is appended to, "none" when
\* the line is not a candidate or matches no branch.
Classify(line_stripped) ==
    IF ~IsCandidate(line_stripped) THEN "none"
    ELSE IF Contains("parallel", line_stripped) /\ ~Contains("for", line_stripped)
         THEN "parallel_regions"
    ELSE IF Contains("task", line_stripped) /\ ~Contains("taskwait", line_stripped)
         THEN "tasks"
    ELSE IF Contains("for", line_stripped)
         THEN "for_loops"
    ELSE IF Contains("single", line_stripped)
         THEN "single_regions"
    ELSE IF \E sync \in {"barrier", "taskwait", "critical"} : Contains(sync, line_stripped)
         THEN "sync_points"
    ELSE "none"

\* The variant that records enumerate's 0-based index as the line number.
LineNumberZeroBased(i) == i

\* 'line': i + 1, the 1-based number of the line at enumerate's index i.
LineNumber(i) == i + 1

\* The dict appended for loop index i (0-based, as enumerate gives it).
Construct(group, i, line_stripped) ==
    CASE group = "parallel_regions" ->
           [line |-> LineNumber(i), pragma |-> line_stripped, type |-> "parallel"]
      [] group = "tasks" ->
           [line |-> LineNumber(i), pragma |-> line_stripped, type |-> "task",
            untied |-> Contains("untied", line_stripped),
            firstprivate |-> Contains("firstprivate", line_stripped),
            shared |-> Contains("shared", line_stripped)]
      [] group = "for_loops" ->
           [line |-> LineNumber(i), pragma |-> line_stripped, type |-> "for",
            nowait |-> Contains("nowait", line_stripped),
            private |-> Contains("private", line_stripped)]
      [] group = "single_regions" ->
           [line |-> LineNumber(i), pragma |-> line_stripped, type |-> "single"]
      [] group = "sync_points" ->
           [line |-> LineNumber(i), pragma |-> line_stripped, type |-> "synchronization"]

\* The loop `for i, line in enumerate(lines)` from index i on.
RECURSIVE ExtractLoop(_, _, _)
ExtractLoop(lines, i, constructs) ==
    IF i >= Len(lines) THEN constructs
    ELSE LET line_stripped == Strip(lines[i + 1])
             group == Classify(line_stripped)
         IN  ExtractLoop(lines, i + 1,
                 IF group = "none" THEN constructs
                 ELSE [constructs EXCEPT
                         ![group] = Append(@, Construct(group, i, line_stripped))])

extract_openmp_constructs(source_code) ==
    ExtractLoop(Split(source_code), 0, EmptyConstructs)

(***************************************************************************)
(* The four graphs, as the DOT text the generator returns.                 *)
(***************************************************************************)

\* cfg_generator.py:132-194, the SparseLU-specific graph, verbatim.
generate_sparselu_cfg ==
    "\n" \o
    "digraph \"SparseLU_CFG\" {\n" \o
    "    rankdir=TB;\n" \o
    "    node [shape=box, style=filled];\n" \o
    "    \n" \o
    "    // Entry point\n" \o
    "    BB_entry [label=\"Entry\\nSparseLU Function\", fillcolor=lightgray];\n" \o
    "    \n" \o
    "    // Initialization\n" \o
    "    BB_init [label=\"BB_1\\nInitialization\\nMessage output\", fillcolor=white];\n" \o
    "    \n" \o
    "    // Parallel region start\n" \o
    "    BB_parallel_start [label=\"BB_2\\n#pragma omp parallel\\nThread team creation\", fillcolor=lightblue];\n" \o
    "    \n" \o
    "    // Main k-loop\n" \o
    "    BB_k_loop [label=\"BB_3\\nfor (kk=0; kk<size; kk++)\", fillcolor=white];\n" \o
    "    \n" \o
    "    // Single region for LU0\n" \o
    "    BB_single_lu0 [label=\"BB_4\\n#pragma omp single\\nlu0() call\", fillcolor=lightgreen];\n" \o
    "    \n" \o
    "    // First parallel for (fwd tasks)\n" \o
    "    BB_for1_start [label=\"BB_5\\n#pragma omp for nowait\\nj-loop start\", fillcolor=yellow];\n" \o
    "    BB_fwd_task [label=\"BB_6\\n#pragma omp task untied\\nfwd() task creation\", fillcolor=red];\n" \o
    "    \n" \o
    "    // Second parallel for (bdiv tasks)  \n" \o
    "    BB_for2_start [label=\"BB_7\\n#pragma omp for\\ni-loop start\", fillcolor=yellow];\n" \o
    "    BB_bdiv_task [label=\"BB_8\\n#pragma omp task untied\\nbdiv() task creation\", fillcolor=red];\n" \o
    "    \n" \o
    "    // Third parallel for (bmod tasks)\n" \o
    "    BB_for3_start [label=\"BB_9\\n#pragma omp for private(jj)\\ni-loop for bmod\", fillcolor=yellow];\n" \o
    "    BB_bmod_inner [label=\"BB_10\\nInner j-loop\\nNULL check\", fillcolor=white];\n" \o
    "    BB_bmod_task [label=\"BB_11\\n#pragma omp task untied\\nbmod() task creation\", fillcolor=red];\n" \o
    "    \n" \o
    "    // Loop continuation and exit\n" \o
    "    BB_k_continue [label=\"BB_12\\nk-loop continue\\nImplicit barrier\", fillcolor=lightgreen];\n" \o
    "    BB_parallel_end [label=\"BB_13\\nParallel region end\\nThread team join\", fillcolor=lightblue];\n" \o
    "    BB_exit [label=\"Exit\\nFunction return\", fillcolor=lightgray];\n" \o
    "    \n" \o
    "    // Control flow edges\n" \o
    "    BB_entry -> BB_init;\n" \o
    "    BB_init -> BB_parallel_start;\n" \o
    "    BB_parallel_start -> BB_k_loop;\n" \o
    "    BB_k_loop -> BB_single_lu0;\n" \o
    "    BB_single_lu0 -> BB_for1_start;\n" \o
    "    BB_for1_start -> BB_fwd_task;\n" \o
    "    BB_fwd_task -> BB_for2_start;\n" \o
    "    BB_for2_start -> BB_bdiv_task;\n" \o
    "    BB_bdiv_task -> BB_for3_start;\n" \o
    "    BB_for3_start -> BB_bmod_inner;\n" \o
    "    BB_bmod_inner -> BB_bmod_task;\n" \o
    "    BB_bmod_task -> BB_k_continue;\n" \o
    "    BB_k_continue -> BB_k_loop [label=\"k++\"];\n" \o
    "    BB_k_loop -> BB_parallel_end [label=\"k >= size\"];\n" \o
    "    BB_parallel_end -> BB_exit;\n" \o
    "    \n" \o
    "    // Task execution flows (simplified)\n" \o
    "    BB_fwd_task -> BB_fwd_task [label=\"task instances\", style=dashed, color=red];\n" \o
    "    BB_bdiv_task -> BB_bdiv_task [label=\"task instances\", style=dashed, color=red];\n" \o
    "    BB_bmod_task -> BB_bmod_task [label=\"task instances\", style=dashed, color=red];\n" \o
    "}\n"

\* cfg_generator.py:196-222, the Task-Parallel graph, verbatim.
generate_task_parallel_cfg ==
    "\n" \o
    "digraph \"TaskParallel_CFG\" {\n" \o
    "    rankdir=TB;\n" \o
    "    node [shape=box, style=filled];\n" \o
    "    \n" \o
    "    BB_entry [label=\"Entry\\nFunction Start\", fillcolor=lightgray];\n" \o
    "    BB_parallel_start [label=\"BB_1\\n#pragma omp parallel\\nThread team creation\", fillcolor=lightblue];\n" \o
    "    BB_for_start [label=\"BB_2\\n#pragma omp for\\nParallel for loop\", fillcolor=yellow];\n" \o
    "    BB_task_create [label=\"BB_3\\n#pragma omp task\\nTask creation\", fillcolor=red];\n" \o
    "    BB_task_work [label=\"BB_4\\nTask computation\\nWork execution\", fillcolor=red];\n" \o
    "    BB_sync [label=\"BB_5\\nImplicit barrier\\nSynchronization\", fillcolor=lightgreen];\n" \o
    "    BB_parallel_end [label=\"BB_6\\nParallel region end\", fillcolor=lightblue];\n" \o
    "    BB_exit [label=\"Exit\\nFunction return\", fillcolor=lightgray];\n" \o
    "    \n" \o
    "    BB_entry -> BB_parallel_start;\n" \o
    "    BB_parallel_start -> BB_for_start;\n" \o
    "    BB_for_start -> BB_task_create;\n" \o
    "    BB_task_create -> BB_task_work;\n" \o
    "    BB_task_work -> BB_sync;\n" \o
    "    BB_sync -> BB_parallel_end;\n" \o
    "    BB_parallel_end -> BB_exit;\n" \o
    "    \n" \o
    "    BB_task_create -> BB_task_create [label=\"multiple tasks\", style=dashed];\n" \o
    "}\n"

\* cfg_generator.py:224-247, the Parallel-For graph, verbatim.
generate_parallel_for_cfg ==
    "\n" \o
    "digraph \"ParallelFor_CFG\" {\n" \o
    "    rankdir=TB;\n" \o
    "    node [shape=box, style=filled];\n" \o
    "    \n" \o
    "    BB_entry [label=\"Entry\\nFunction Start\", fillcolor=lightgray];\n" \o
    "    BB_parallel_start [label=\"BB_1\\n#pragma omp parallel\\nThread team creation\", fillcolor=lightblue];\n" \o
    "    BB_for_start [label=\"BB_2\\n#pragma omp for\\nLoop distribution\", fillcolor=yellow];\n" \o
    "    BB_loop_body [label=\"BB_3\\nLoop body\\nComputation\", fillcolor=white];\n" \o
    "    BB_barrier [label=\"BB_4\\nImplicit barrier\\nSynchronization\", fillcolor=lightgreen];\n" \o
    "    BB_parallel_end [label=\"BB_5\\nParallel region end\", fillcolor=lightblue];\n" \o
    "    BB_exit [label=\"Exit\\nFunction return\", fillcolor=lightgray];\n" \o
    "    \n" \o
    "    BB_entry -> BB_parallel_start;\n" \o
    "    BB_parallel_start -> BB_for_start;\n" \o
    "    BB_for_start -> BB_loop_body;\n" \o
    "    BB_loop_body -> BB_loop_body [label=\"iterations\", style=dashed];\n" \o
    "    BB_loop_body -> BB_barrier;\n" \o
    "    BB_barrier -> BB_parallel_end;\n" \o
    "    BB_parallel_end -> BB_exit;\n" \o
    "}\n"

\* The variant of the Basic-Sequential graph that declares no exit node.
generate_basic_cfg_no_exit ==
    "\n" \o
    "digraph \"Basic_CFG\" {\n" \o
    "    rankdir=TB;\n" \o
    "    node [shape=box, style=filled];\n" \o
    "    \n" \o
    "    BB_entry [label=\"Entry\\nFunction Start\", fillcolor=lightgray];\n" \o
    "    BB_sequential [label=\"BB_1\\nSequential code\\nComputation\", fillcolor=white];\n" \o
    "    \n" \o
    "    BB_entry -> BB_sequential;\n" \o
    "    BB_sequential -> BB_exit;\n" \o
    "}\n"

\* cfg_generator.py:249-263, the Basic-Sequential graph, verbatim.
generate_basic_cfg ==
    "\n" \o
    "digraph \"Basic_CFG\" {\n" \o
    "    rankdir=TB;\n" \o
    "    node [shape=box, style=filled];\n" \o
    "    \n" \o
    "    BB_entry [label=\"Entry\\nFunction Start\", fillcolor=lightgray];\n" \o
    "    BB_sequential [label=\"BB_1\\nSequential code\\nComputation\", fillcolor=white];\n" \o
    "    BB_exit [label=\"Exit\\nFunction return\", fillcolor=lightgray];\n" \o
    "    \n" \o
    "    BB_entry -> BB_sequential;\n" \o
    "    BB_sequential -> BB_exit;\n" \o
    "}\n"

(***************************************************************************)
(* Reading a graph back from its DOT text: the node statements as the      *)
(* node_pattern of save_cfg finds them, the edge statements `a -> b`.      *)
(***************************************************************************)

\* The least i with m at position i of s, 0 when m does not occur.
IndexOf(m, s) ==
    LET at == {i \in 1..(Len(s) - Len(m) + 1) : SubSeq(s, i, i + Len(m) - 1) = m}
    IN  IF at = {} THEN 0 ELSE CHOOSE i \in at : \A j \in at : i <= j

\* The characters \w matches.
WordChars == "abcdefghijklmnopqrstuvwxyzABCDEFGHIJKLMNOPQRSTUVWXYZ0123456789_"

IsWordChar(c) == \E i \in 1..Len(WordChars) : CharAt(WordChars, i) = c

\* The longest run of word characters s starts with.
LeadingWord(s) ==
    LET stop == {i \in 1..Len(s) : ~IsWordChar(CharAt(s, i))}
    IN  IF stop = {} THEN s
        ELSE SubSeq(s, 1, (CHOOSE i \in stop : \A j \in stop : i <= j) - 1)

\* The longest run of word characters s ends with.
TrailingWord(s) ==
    LET stop == {i \in 1..Len(s) : ~IsWordChar(CharAt(s, i))}
    IN  IF stop = {} THEN s
        ELSE SubSeq(s, (CHOOSE i \in stop : \A j \in stop : j <= i) + 1, Len(s))

\* node_pattern, (\w+)\s*\[label="([^"]+)"[^\]]*fillcolor=(\w+)[^\]]*\], on one
\* line: <<[id, label, fillcolor]>> when the line holds a match, <<>> otherwise.
NodeOfLine(line) ==
    LET open == IndexOf("[label=\"", line)
        id == TrailingWord(Strip(SubSeq(line, 1, open - 1)))
        rest == SubSeq(line, open + Len("[label=\""), Len(line))
        quote == IndexOf("\"", rest)
        label == SubSeq(rest, 1, quote - 1)
        after == SubSeq(rest, quote + 1, Len(rest))
        close == IndexOf("]", after)
        attrs == SubSeq(after, 1, close - 1)
        fill == IndexOf("fillcolor=", attrs)
        color == LeadingWord(SubSeq(attrs, fill + Len("fillcolor="), Len(attrs)))
    IN  IF /\ open > 0 /\ id # "" /\ quote > 1 /\ close > 0 /\ fill > 0 /\ color # ""
        THEN <<[id |-> id, label |-> label, fillcolor |-> color]>>
        ELSE <<>>

\* An edge statement `a -> b [attributes];` on one line: <<[src, dst, dashed]>>,
\* <<>> when the line holds no edge.
EdgeOfLine(line) ==
    LET arrow == IndexOf("->", line)
        src == TrailingWord(Strip(SubSeq(line, 1, arrow - 1)))
        dst == LeadingWord(Strip(SubSeq(line, arrow + Len("->"), Len(line))))
    IN  IF arrow > 0 /\ src # "" /\ dst # ""
        THEN <<[src |-> src, dst |-> dst, dashed |-> Contains("style=dashed", line)]>>
        ELSE <<>>

\* The graph a DOT text declares: its node and edge statements in text order.
ParseGraph(dot_graph) ==
    LET lines == Split(dot_graph)
        node_lines == SelectSeq(lines, LAMBDA line : NodeOfLine(line) # <<>>)
        edge_lines == SelectSeq(lines, LAMBDA line : EdgeOfLine(line) # <<>>)
    IN  [nodes |-> [k \in 1..Len(node_lines) |-> NodeOfLine(node_lines[k])[1]],
         edges |-> [k \in 1..Len(edge_lines) |-> EdgeOfLine(edge_lines[k])[1]]]

(***************************************************************************)
(* OpenMPCFGGenerator.simulate_llm_response                                *)
(***************************************************************************)

\* The benchmark fingerprint test of the first branch.
IsSparseLU(source_code) ==
    \/ Contains("sparselu", Lower(source_code))
    \/ (Contains("lu0", source_code) /\ Contains("fwd", source_code))

\* The variant that looks at the inventory before the fingerprint.
simulate_llm_response_inventory_first(source_code, constructs) ==
    LET has_parallel == Len(constructs.parallel_regions) > 0
        has_tasks == Len(constructs.tasks) > 0
        has_for_loops == Len(constructs.for_loops) > 0
    IN  IF has_parallel /\ has_tasks /\ has_for_loops THEN generate_task_parallel_cfg
        ELSE IF has_parallel /\ has_for_loops THEN generate_parallel_for_cfg
        ELSE IF IsSparseLU(source_code) THEN generate_sparselu_cfg
        ELSE generate_basic_cfg

\* The variant that returns the Parallel-For graph for the Task-Parallel case
\* and the other way round.
simulate_llm_response_swapped(source_code, constructs) ==
    LET has_parallel == Len(constructs.parallel_regions) > 0
        has_tasks == Len(constructs.tasks) > 0
        has_for_loops == Len(constructs.for_loops) > 0
    IN  IF IsSparseLU(source_code) THEN generate_sparselu_cfg
        ELSE IF has_parallel /\ has_tasks /\ has_for_loops THEN generate_parallel_for_cfg
        ELSE IF has_parallel /\ has_for_loops THEN generate_task_parallel_cfg
        ELSE generate_basic_cfg

simulate_llm_response(source_code, constructs) ==
    LET has_parallel == Len(constructs.parallel_regions) > 0
        has_tasks == Len(constructs.tasks) > 0
        has_for_loops == Len(constructs.for_loops) > 0
    IN  IF IsSparseLU(source_code) THEN generate_sparselu_cfg
        ELSE IF has_parallel /\ has_tasks /\ has_for_loops THEN generate_task_parallel_cfg
        ELSE IF has_parallel /\ has_for_loops THEN generate_parallel_for_cfg
        ELSE generate_basic_cfg

(***************************************************************************)
(* OpenMPCFGGenerator.validate_cfg                                         *)
(***************************************************************************)

\* validation_results as initialised: every predicate False.
NoValidation ==
    [has_entry_exit |-> FALSE, parallel_regions_detected |-> FALSE,
     tasks_detected |-> FALSE, sync_points_detected |-> FALSE,
     valid_dot_syntax |-> FALSE, has_edges |-> FALSE]

\* s.startswith(m).
StartsWith(m, s) == Len(m) <= Len(s) /\ SubSeq(s, 1, Len(m)) = m

\* The variant that wants the text to start with the keyword.
ValidDotSyntaxStartsWith(dot_graph) ==
    StartsWith("digraph", dot_graph) /\ Count("{", dot_graph) = Count("}", dot_graph)

\* The variant that forgets to compare the brace counts.
ValidDotSyntaxKeywordOnly(dot_graph) == Contains("digraph", dot_graph)

\* The DOT syntax test of validate_cfg.
ValidDotSyntax(dot_graph) ==
    Contains("digraph", dot_graph) /\ Count("{", dot_graph) = Count("}", dot_graph)

\* The variant that looks for the undirected edge marker.
validate_cfg_undirected_edges(dot_graph) ==
    LET lowered == Lower(dot_graph)
    IN  [has_entry_exit |->
            /\ \E entry \in {"Entry", "BB_entry", "entry"} : Contains(entry, dot_graph)
            /\ \E exit \in {"Exit", "BB_exit", "exit"} : Contains(exit, dot_graph),
         parallel_regions_detected |-> Contains("parallel", lowered),
         tasks_detected |-> Contains("task", lowered),
         sync_points_detected |->
            \E sync \in {"barrier", "single", "sync"} : Contains(sync, lowered),
         valid_dot_syntax |-> ValidDotSyntax(dot_graph),
         has_edges |-> Contains("--", dot_graph)]

validate_cfg(dot_graph) ==
    LET lowered == Lower(dot_graph)
    IN  [has_entry_exit |->
            /\ \E entry \in {"Entry", "BB_entry", "entry"} : Contains(entry, dot_graph)
            /\ \E exit \in {"Exit", "BB_exit", "exit"} : Contains(exit, dot_graph),
         parallel_regions_detected |-> Contains("parallel", lowered),
         tasks_detected |-> Contains("task", lowered),
         sync_points_detected |->
            \E sync \in {"barrier", "single", "sync"} : Contains(sync, lowered),
         valid_dot_syntax |-> ValidDotSyntax(dot_graph),
         has_edges |-> Contains("->", dot_graph)]

\* The graphs simulate_llm_response can return.
Graphs ==
    {generate_sparselu_cfg, generate_task_parallel_cfg,
     generate_parallel_for_cfg, generate_basic_cfg}

\* validate_cfg is a pure function of the text: its report on each of the four
\* graphs, computed once.
ReportOfGraph == [dot_graph \in Graphs |-> validate_cfg(dot_graph)]

\* validate_cfg(dot_graph), read from ReportOfGraph where it is tabulated.
Report(dot_graph) ==
    IF dot_graph \in Graphs THEN ReportOfGraph[dot_graph] ELSE validate_cfg(dot_graph)

(***************************************************************************)
(* OpenMPCFGGenerator.save_cfg                                             *)
(***************************************************************************)

\* The PNG methods in the order save_cfg tries them, then the text dump.
Renderers == <<"graphviz", "dot", "matplotlib", "text">>

\* The methods a sequence of them names.
Methods(methods) == {methods[k] : k \in DOMAIN methods}

\* The variant of methods 1 to 3 that tries each whatever the flag says.
RECURSIVE TryPngRegardless(_, _, _)
TryPngRegardless(fails, k, st) ==
    IF k > 3 THEN st
    ELSE TryPngRegardless(fails, k + 1,
             [png_generated |-> st.png_generated \/ ~fails[Renderers[k]],
              attempted |-> Append(st.attempted, Renderers[k])])

\* Methods 1 to 3: each runs under `if not png_generated` and sets the flag
\* when it raises nothing.  fails[r] says whether method r raises.
RECURSIVE TryPng(_, _, _)
TryPng(fails, k, st) ==
    IF k > 3 THEN st
    ELSE TryPng(fails, k + 1,
             IF ~st.png_generated
             THEN [png_generated |-> ~fails[Renderers[k]],
                   attempted |-> Append(st.attempted, Renderers[k])]
             ELSE st)

\* What save_cfg leaves behind once the DOT file is written.
save_cfg(fails) ==
    LET png == TryPng(fails, 1, [png_generated |-> FALSE, attempted |-> <<>>])
    IN  IF ~png.png_generated
        THEN [png_generated |-> FALSE,
              attempted |-> Append(png.attempted, Renderers[4]),
              txt_saved |-> ~fails[Renderers[4]]]
        ELSE [png_generated |-> TRUE, attempted |-> png.attempted, txt_saved |-> FALSE]

(***************************************************************************)
(* The inputs: the text of the file named by --input.                      *)
(***************************************************************************)

\* Most lines of a source text.
MaxLines == 4
\* Most marker words after the directive prefix of a generated line.
MaxWords == 2

SeqsUpTo(S, n) == UNION {[1..k -> S] : k \in 0..n}

\* Lines of C source as the BOTS sparselu benchmark has them, shortened.
Corpus ==
    {"#pragma omp parallel",
     "  #pragma omp task untied",
     "#pragma omp for nowait",
     "void sparselu()"}

CorpusTexts == {JoinLines(ls) : ls \in SeqsUpTo(Corpus, MaxLines)}

\* The words the classification looks for, one it does not, and the two
\* function names of the fingerprint.
MarkerWords ==
    {"parallel", "for", "task", "taskwait", "single", "barrier", "critical", "atomic",
     "lu0", "fwd"}

RECURSIVE JoinWords(_)
JoinWords(ws) == IF Len(ws) = 0 THEN "" ELSE " " \o Head(ws) \o JoinWords(Tail(ws))

\* One-line texts: any marker words, behind the directive prefix or not.
MarkerTexts ==
    {prefix \o JoinWords(ws) : prefix \in {"#pragma omp", "SparseLU", ""},
                               ws \in SeqsUpTo(MarkerWords, MaxWords)}

InputTexts == CorpusTexts \cup MarkerTexts \cup {"  \n\t"}

(***************************************************************************)
(* main: one run on one input file.                                        *)
(***************************************************************************)

VARIABLES
    pc,             \* where main is
    input_text,     \* the contents of the file args.input names
    source_code,    \* main's source_code
    constructs,     \* main's constructs
    cfg_dot,        \* main's cfg_dot
    validation,     \* main's validation
    dot_file,       \* the contents of <name>_cfg.dot, "" while not written
    png_generated,  \* save_cfg's png_generated
    attempted,      \* the methods save_cfg has tried, in order
    raised,         \* the methods of save_cfg whose except clause ran
    txt_saved,      \* whether <name>_cfg.txt was written
    exit_status,    \* main's return value, -1 while it runs
    batch_pc,       \* where batch_process.main is, "off" when main runs alone
    openmp_files,   \* the batch's openmp_files: the paths discovered, in order
    file_index,     \* the batch loop's i
    processed,      \* the paths the batch has launched cfg_generator.py on
    outcomes,       \* what the batch printed for each: success, failed, unexpected
    success_count,  \* the batch's success_count
    fail_count,     \* the batch's fail_count
    batch_status    \* batch_process.main's return value, -1 while it runs

vars == <<pc, input_text, source_code, constructs, cfg_dot, validation,
          dot_file, png_generated, attempted, raised, txt_saved, exit_status,
          batch_pc, openmp_files, file_index, processed, outcomes,
          success_count, fail_count, batch_status>>

main_vars == <<pc, input_text, source_code, constructs, cfg_dot, validation,
               dot_file, png_generated, attempted, raised, txt_saved, exit_status>>

batch_vars == <<batch_pc, openmp_files, file_index, processed, outcomes,
                success_count, fail_count, batch_status>>

\* cfg_generator.py run on its own: no batch around it.
NoBatch ==
    /\ batch_pc = "off"
    /\ openmp_files = <<>>
    /\ file_index = 0
    /\ processed = <<>>
    /\ outcomes = <<>>
    /\ success_count = 0
    /\ fail_count = 0
    /\ batch_status = -1

Init ==
    /\ input_text \in InputTexts
    /\ pc = "check_input"
    /\ source_code = ""
    /\ constructs = EmptyConstructs
    /\ cfg_dot = ""
    /\ validation = NoValidation
    /\ dot_file = ""
    /\ png_generated = FALSE
    /\ attempted = <<>>
    /\ raised = {}
    /\ txt_saved = FALSE
    /\ exit_status = -1
    /\ NoBatch

\* `if not os.path.exists(args.input): return 1`
CheckInput ==
    /\ pc = "check_input"
    /\ \E exists \in BOOLEAN :
         IF exists
         THEN pc' = "read" /\ UNCHANGED exit_status
         ELSE pc' = "exit" /\ exit_status' = 1
    /\ UNCHANGED <<input_text, source_code, constructs, cfg_dot, validation,
                   dot_file, png_generated, attempted, raised, txt_saved>>
    /\ UNCHANGED batch_vars

\* The try block that reads the file: a read error or an empty text returns 1.
ReadInput ==
    /\ pc = "read"
    /\ \E readable \in BOOLEAN :
         IF ~readable
         THEN pc' = "exit" /\ exit_status' = 1 /\ UNCHANGED source_code
         ELSE /\ source_code' = input_text
              /\ IF Strip(input_text) = ""
                 THEN pc' = "exit" /\ exit_status' = 1
                 ELSE pc' = "extract" /\ UNCHANGED exit_status
    /\ UNCHANGED <<input_text, constructs, cfg_dot, validation,
                   dot_file, png_generated, attempted, raised, txt_saved>>
    /\ UNCHANGED batch_vars

\* constructs = generator.extract_openmp_constructs(source_code)
Extract ==
    /\ pc = "extract"
    /\ constructs' = extract_openmp_constructs(source_code)
    /\ pc' = "generate"
    /\ UNCHANGED <<input_text, source_code, cfg_dot, validation,
                   dot_file, png_generated, attempted, raised, txt_saved, exit_status>>
    /\ UNCHANGED batch_vars

\* cfg_dot = generator.simulate_llm_response(source_code, constructs); the
\* prompt built just before is a string nothing reads.
Generate ==
    /\ pc = "generate"
    /\ cfg_dot' = simulate_llm_response(source_code, constructs)
    /\ pc' = "validate"
    /\ UNCHANGED <<input_text, source_code, constructs, validation,
                   dot_file, png_generated, attempted, raised, txt_saved, exit_status>>
    /\ UNCHANGED batch_vars

\* The variant of main that gives up when a validation check fails.
ProceedsAfterValidationOnlyIfPassed(report) ==
    \A check \in DOMAIN report : report[check]

\* Whether main goes on to save after the report: all_passed is only printed.
ProceedsAfterValidation(report) == TRUE

\* validation = generator.validate_cfg(cfg_dot, source_code), then the report.
Validate ==
    /\ pc = "validate"
    /\ validation' = Report(cfg_dot)
    /\ IF ProceedsAfterValidation(validation')
       THEN pc' = "save" /\ UNCHANGED exit_status
       ELSE pc' = "exit" /\ exit_status' = 1
    /\ UNCHANGED <<input_text, source_code, constructs, cfg_dot,
                   dot_file, png_generated, attempted, raised, txt_saved>>
    /\ UNCHANGED batch_vars

\* generator.save_cfg(cfg_dot, ...) and `return 0`.  Creating the directory or
\* writing the DOT file may raise, which nothing catches; every later method
\* catches what it raises.
Save ==
    /\ pc = "save"
    /\ \E dot_written \in BOOLEAN, fails \in [Methods(Renderers) -> BOOLEAN] :
         IF ~dot_written
         THEN /\ exit_status' = 1
              /\ UNCHANGED <<dot_file, png_generated, attempted, raised, txt_saved>>
         ELSE LET done == save_cfg(fails)
              IN  /\ dot_file' = cfg_dot
                  /\ png_generated' = done.png_generated
                  /\ attempted' = done.attempted
                  /\ raised' = {r \in Methods(done.attempted) : fails[r]}
                  /\ txt_saved' = done.txt_saved
                  /\ exit_status' = 0
    /\ pc' = "exit"
    /\ UNCHANGED <<input_text, source_code, constructs, cfg_dot, validation>>
    /\ UNCHANGED batch_vars

Next == CheckInput \/ ReadInput \/ Extract \/ Generate \/ Validate \/ Save

Spec == Init /\ [][Next]_vars

(***************************************************************************)
(* validate_cfg on its own, applied to any short DOT-like text.            *)
(***************************************************************************)

\* Most pieces of a generated text.
MaxPieces == 4

\* What the syntax test looks at, and text it ignores.
DotPieces == {"digraph G ", "{", "}", "\n", "a -> b;"}

RECURSIVE Concat(_)
Concat(pieces) == IF Len(pieces) = 0 THEN "" ELSE Head(pieces) \o Concat(Tail(pieces))

DotTexts == {Concat(pieces) : pieces \in SeqsUpTo(DotPieces, MaxPieces)}

InitValidate ==
    /\ cfg_dot \in DotTexts
    /\ pc = "validate"
    /\ input_text = ""
    /\ source_code = ""
    /\ constructs = EmptyConstructs
    /\ validation = NoValidation
    /\ dot_file = ""
    /\ png_generated = FALSE
    /\ attempted = <<>>
    /\ raised = {}
    /\ txt_saved = FALSE
    /\ exit_status = -1
    /\ NoBatch

SpecValidate == InitValidate /\ [][Validate]_vars

(***************************************************************************)
(* batch_process.py: cfg_generator.py run on every file discovered.        *)
(***************************************************************************)

\* Most files under the omp-tasks directory.
MaxFiles == 3

\* s.endswith(m).
EndsWith(m, s) == Len(m) <= Len(s) /\ SubSeq(s, Len(s) - Len(m) + 1, Len(s)) = m

\* Files os.walk may meet: a C file with directives, one without, a header
\* with directives, and a C file that cannot be read.
BotsFiles ==
    {[name |-> "sparselu.c", readable |-> TRUE, content |-> "#pragma omp task"],
     [name |-> "fib.c", readable |-> TRUE, content |-> "int fib;"],
     [name |-> "bots.h", readable |-> TRUE, content |-> "#pragma omp task"],
     [name |-> "sort.c", readable |-> FALSE, content |-> "#pragma omp task"]}

\* What os.walk yields, in its order.
Walks == SeqsUpTo(BotsFiles, MaxFiles)

\* find_openmp_files.  The path of a file is its place in the walk.
find_openmp_files(bots_exists, omp_tasks_exists, walk) ==
    IF ~bots_exists THEN <<>>
    ELSE IF ~omp_tasks_exists THEN <<>>
    ELSE LET Kept(k) == /\ EndsWith(".c", walk[k].name)
                        /\ walk[k].readable
                        /\ Contains("#pragma omp", walk[k].content)
         IN  SelectSeq([k \in 1..Len(walk) |-> k], Kept)

\* What a discovered file may hold by the time cfg_generator.py reads it.
UnitTexts == {"#pragma omp task", "  \n\t"}

InitBatch ==
    /\ batch_pc = "discover"
    /\ openmp_files = <<>>
    /\ file_index = 0
    /\ processed = <<>>
    /\ outcomes = <<>>
    /\ success_count = 0
    /\ fail_count = 0
    /\ batch_status = -1
    /\ pc = "not_started"
    /\ input_text = ""
    /\ source_code = ""
    /\ constructs = EmptyConstructs
    /\ cfg_dot = ""
    /\ validation = NoValidation
    /\ dot_file = ""
    /\ png_generated = FALSE
    /\ attempted = <<>>
    /\ raised = {}
    /\ txt_saved = FALSE
    /\ exit_status = -1

\* openmp_files = find_openmp_files(bots_path); `return 1` when it is empty,
\* else the listing and the two counters.
Discover ==
    /\ batch_pc = "discover"
    /\ \E bots_exists \in BOOLEAN, omp_tasks_exists \in BOOLEAN, walk \in Walks :
         openmp_files' = find_openmp_files(bots_exists, omp_tasks_exists, walk)
    /\ IF openmp_files' = <<>>
       THEN /\ batch_pc' = "done"
            /\ batch_status' = 1
            /\ UNCHANGED <<file_index, success_count, fail_count>>
       ELSE /\ batch_pc' = "loop"
            /\ file_index' = 1
            /\ success_count' = 0
            /\ fail_count' = 0
            /\ UNCHANGED batch_status
    /\ UNCHANGED <<processed, outcomes>>
    /\ UNCHANGED main_vars

\* The variant of the loop that an error of one file ends.
LoopContinuesOnlyOnSuccess(outcome) == outcome = "success"

\* Whether the loop goes on after a file: neither except clause leaves it.
LoopContinues(outcome) == TRUE

\* subprocess.run(..., check=True) raises CalledProcessError exactly when the
\* return code is not 0.
run_outcome(returncode) == IF returncode = 0 THEN "success" ELSE "failed"

\* The end of one pass through the loop body: the line printed, the counter.
Tally(outcome) ==
    /\ outcomes' = Append(outcomes, outcome)
    /\ IF outcome = "success"
       THEN success_count' = success_count + 1 /\ UNCHANGED fail_count
       ELSE fail_count' = fail_count + 1 /\ UNCHANGED success_count
    /\ IF LoopContinues(outcome)
       THEN batch_pc' = "loop" /\ file_index' = file_index + 1 /\ UNCHANGED batch_status
       ELSE batch_pc' = "done" /\ batch_status' = 1 /\ UNCHANGED file_index

\* The loop body up to subprocess.run: either cfg_generator.py starts, as a new
\* process on the file as it is now, or the call raises something else than
\* CalledProcessError, which `except Exception` counts as a failure.
StartUnit ==
    /\ batch_pc = "loop"
    /\ file_index <= Len(openmp_files)
    /\ processed' = Append(processed, openmp_files[file_index])
    /\ \E started \in BOOLEAN :
         IF started
         THEN /\ batch_pc' = "wait"
              /\ pc' = "check_input"
              /\ input_text' \in UnitTexts
              /\ source_code' = ""
              /\ constructs' = EmptyConstructs
              /\ cfg_dot' = ""
              /\ validation' = NoValidation
              /\ dot_file' = ""
              /\ png_generated' = FALSE
              /\ attempted' = <<>>
              /\ raised' = {}
              /\ txt_saved' = FALSE
              /\ exit_status' = -1
              /\ UNCHANGED <<file_index, outcomes, success_count, fail_count,
                             batch_status>>
         ELSE /\ Tally("unexpected")
              /\ UNCHANGED main_vars
    /\ UNCHANGED openmp_files

\* cfg_generator.py has exited: subprocess.run returns or raises.
FinishUnit ==
    /\ batch_pc = "wait"
    /\ pc = "exit"
    /\ Tally(run_outcome(exit_status))
    /\ UNCHANGED <<openmp_files, processed>>
    /\ UNCHANGED main_vars

\* The variant that returns 0 only when no file failed.
batch_return_no_failures(successes, failures) == IF failures = 0 THEN 0 ELSE 1

\* `return 0` if success_count > 0, else `return 1`.
batch_return(successes, failures) == IF successes > 0 THEN 0 ELSE 1

\* The loop is over: the summary and the return value.
Finish ==
    /\ batch_pc = "loop"
    /\ file_index > Len(openmp_files)
    /\ batch_status' = batch_return(success_count, fail_count)
    /\ batch_pc' = "done"
    /\ UNCHANGED <<openmp_files, file_index, processed, outcomes,
                   success_count, fail_count>>
    /\ UNCHANGED main_vars

NextBatch ==
    \/ Discover \/ StartUnit
    \/ CheckInput \/ ReadInput \/ Extract \/ Generate \/ Validate \/ Save
    \/ FinishUnit \/ Finish

SpecBatch == InitBatch /\ [][NextBatch]_vars

(***************************************************************************)
(* Properties.                                                             *)
(***************************************************************************)

\* The lines of main's source_code, untrimmed.
SourceLines == Split(source_code)

\* No line of the text holds the directive marker.
NoDirectiveMarker(text) ==
    LET lines == Split(text)
    IN  \A n \in 1..Len(lines) : ~Contains("#pragma omp", lines[n])

\* The groups that hold a construct of line n.
GroupsOfLine(n) ==
    {g \in Groups : \E k \in 1..Len(constructs[g]) : constructs[g][k].line = n}

\* The line numbers of group g, in the order of the group.
LinesOfGroup(g) == [k \in 1..Len(constructs[g]) |-> constructs[g][k].line]

\* C1 as stated: once the graph is chosen for a text without any directive
\* marker, the inventory is empty and the graph is the Basic-Sequential one.
C1_AsStated ==
    (pc = "validate" /\ NoDirectiveMarker(source_code))
        => (constructs = EmptyConstructs /\ cfg_dot = generate_basic_cfg)

\* C1, amended: for a text without any directive marker the inventory is empty,
\* and the graph is the Basic-Sequential one unless the text carries the
\* benchmark fingerprint, in which case it is the SparseLU-specific one.
C1_NoDirectives ==
    (pc = "validate" /\ NoDirectiveMarker(source_code))
        => /\ constructs = EmptyConstructs
           /\ cfg_dot = IF IsSparseLU(source_code) THEN generate_sparselu_cfg
                        ELSE generate_basic_cfg

\* A text with marker words but no directive marker got the Basic-Sequential graph.
C1_Witness ==
    /\ pc = "validate"
    /\ NoDirectiveMarker(source_code)
    /\ Contains("parallel", source_code)
    /\ constructs = EmptyConstructs
    /\ cfg_dot = generate_basic_cfg

\* The group the five rules give a trimmed candidate line, first match first.
RuleOf(line) ==
    LET has(marker) == Contains(marker, line)
        rule == [r \in 1..5 |->
                   CASE r = 1 -> has("parallel") /\ ~has("for")
                     [] r = 2 -> has("task") /\ ~has("taskwait")
                     [] r = 3 -> has("for")
                     [] r = 4 -> has("single")
                     [] r = 5 -> has("barrier") \/ has("taskwait") \/ has("critical")]
        group == <<"parallel_regions", "tasks", "for_loops", "single_regions", "sync_points">>
        matching == {r \in 1..5 : rule[r]}
    IN  IF matching = {} THEN {}
        ELSE {group[CHOOSE r \in matching : \A q \in matching : r <= q]}

\* C2: after extract, a candidate line has its construct in the group of the
\* first rule it matches and in no other, with the trimmed line as its text; a
\* candidate that matches no rule and a line without the directive marker have
\* no construct.
C2_FirstMatchingRule ==
    pc = "generate" =>
        LET lines == SourceLines
        IN  /\ \A n \in 1..Len(lines) :
                 GroupsOfLine(n) =
                     IF Contains("#pragma omp", lines[n])
                     THEN RuleOf(Strip(lines[n])) ELSE {}
            /\ \A g \in Groups : \A k \in 1..Len(constructs[g]) :
                 /\ constructs[g][k].line \in 1..Len(lines)
                 /\ constructs[g][k].pragma = Strip(lines[constructs[g][k].line])

\* A directive line with both the task and the loop marker became a Task.
C2_Witness ==
    /\ pc = "generate"
    /\ Len(SourceLines) = 1
    /\ Contains("#pragma omp", source_code)
    /\ Contains("task", source_code) /\ ~Contains("taskwait", source_code)
    /\ Contains("for", source_code)
    /\ Len(constructs.tasks) = 1
    /\ Len(constructs.for_loops) = 0

\* C3: after extract, no line number is in two groups or twice in one, every
\* construct's line is the 1-based index of a line holding the directive
\* marker, and each group's line numbers increase strictly.
C3_OneConstructPerLine ==
    pc = "generate" =>
        LET lines == SourceLines
        IN  /\ \A g \in Groups, h \in Groups :
                 \A k \in 1..Len(constructs[g]), l \in 1..Len(constructs[h]) :
                     (constructs[g][k].line = constructs[h][l].line) => (g = h /\ k = l)
            /\ \A g \in Groups : \A k \in 1..Len(constructs[g]) :
                 /\ constructs[g][k].line \in 1..Len(lines)
                 /\ Contains("#pragma omp", lines[constructs[g][k].line])
            /\ \A g \in Groups : \A k \in 1..(Len(constructs[g]) - 1) :
                 constructs[g][k].line < constructs[g][k + 1].line

\* Two tasks on lines 1 and 3 around a line of another group.
C3_Witness ==
    /\ pc = "generate"
    /\ LinesOfGroup("tasks") = <<1, 3>>
    /\ LinesOfGroup("for_loops") = <<2>>

\* The graph of each archetype.
GraphOfArchetype ==
    [a \in {"SparseLU-specific", "Task-Parallel", "Parallel-For", "Basic-Sequential"} |->
        CASE a = "SparseLU-specific" -> generate_sparselu_cfg
          [] a = "Task-Parallel" -> generate_task_parallel_cfg
          [] a = "Parallel-For" -> generate_parallel_for_cfg
          [] a = "Basic-Sequential" -> generate_basic_cfg]

\* The archetype the decision table gives main's source_code and constructs.
Archetype ==
    LET hasParallel == constructs.parallel_regions # <<>>
        hasTask == constructs.tasks # <<>>
        hasLoop == constructs.for_loops # <<>>
    IN  CASE IsSparseLU(source_code) -> "SparseLU-specific"
          [] ~IsSparseLU(source_code) /\ hasParallel /\ hasTask /\ hasLoop -> "Task-Parallel"
          [] ~IsSparseLU(source_code) /\ hasParallel /\ ~hasTask /\ hasLoop -> "Parallel-For"
          [] OTHER -> "Basic-Sequential"

\* C4: the graph chosen is the one the decision table gives: SparseLU-specific
\* for a text with the fingerprint whatever the inventory; otherwise
\* Task-Parallel iff the inventory has a ParallelRegion, a Task and a
\* ParallelLoop; otherwise Parallel-For iff it has a ParallelRegion and a
\* ParallelLoop; otherwise Basic-Sequential.  The four graphs differ, so each
\* combination has exactly one archetype.
C4_ArchetypeDecision ==
    pc = "validate" =>
        /\ cfg_dot = GraphOfArchetype[Archetype]
        /\ \A a \in DOMAIN GraphOfArchetype, b \in DOMAIN GraphOfArchetype :
             GraphOfArchetype[a] = GraphOfArchetype[b] => a = b

\* A text with the fingerprint and all three kinds of construct got the
\* SparseLU-specific graph.
C4_Witness ==
    /\ pc = "validate"
    /\ IsSparseLU(source_code)
    /\ constructs.parallel_regions # <<>>
    /\ constructs.tasks # <<>>
    /\ constructs.for_loops # <<>>
    /\ cfg_dot = generate_sparselu_cfg

\* The graph each DOT text of Graphs declares, read once.
GraphOf == [dot_graph \in Graphs |-> ParseGraph(dot_graph)]

\* A node is flagged by one of the names validate_cfg looks for, in its id or
\* its label.
Flagged(node, names) ==
    \E name \in names : Contains(name, node.id) \/ Contains(name, node.label)

EntryNodes(graph) ==
    {k \in 1..Len(graph.nodes) : Flagged(graph.nodes[k], {"Entry", "BB_entry", "entry"})}

ExitNodes(graph) ==
    {k \in 1..Len(graph.nodes) : Flagged(graph.nodes[k], {"Exit", "BB_exit", "exit"})}

\* C5: the graph chosen for any source text declares exactly one entry node and
\* exactly one exit node, and at least one node and one edge.
C5_OneEntryOneExit ==
    pc = "validate" =>
        /\ cfg_dot \in Graphs
        /\ LET graph == GraphOf[cfg_dot]
           IN  /\ Cardinality(EntryNodes(graph)) = 1
               /\ Cardinality(ExitNodes(graph)) = 1
               /\ Len(graph.nodes) >= 1
               /\ Len(graph.edges) >= 1

\* The graph chosen for a text with constructs but neither fingerprint nor
\* parallel region: the Basic-Sequential one, with its entry and its exit.
C5_Witness ==
    /\ pc = "validate"
    /\ constructs.tasks # <<>>
    /\ cfg_dot = generate_basic_cfg
    /\ EntryNodes(GraphOf[cfg_dot]) = {1}
    /\ ExitNodes(GraphOf[cfg_dot]) = {3}

\* The ids of the nodes, in text order.
NodeIds(graph) == [k \in 1..Len(graph.nodes) |-> graph.nodes[k].id]

\* The edges from a node to itself, and the others, in text order.
SelfLoops(graph) == SelectSeq(graph.edges, LAMBDA e : e.src = e.dst)
FlowEdges(graph) == SelectSeq(graph.edges, LAMBDA e : e.src # e.dst)

\* The edges of the chain through ids, none dashed.
Chain(ids) ==
    [k \in 1..(Len(ids) - 1) |-> [src |-> ids[k], dst |-> ids[k + 1], dashed |-> FALSE]]

\* The nodes drawn as tasks (fillcolor red).
TaskNodes(graph) ==
    {graph.nodes[k].id : k \in {j \in 1..Len(graph.nodes) : graph.nodes[j].fillcolor = "red"}}

\* The shape C6 gives the graph of each archetype.
ShapeOf(a, graph) ==
    CASE a = "SparseLU-specific" ->
           /\ Len(graph.nodes) = 15
           /\ Cardinality(TaskNodes(graph)) = 3
           /\ Len(SelfLoops(graph)) = 3
           /\ \A k \in 1..3 : SelfLoops(graph)[k].dashed
           /\ {SelfLoops(graph)[k].src : k \in 1..3} = TaskNodes(graph)
      [] a = "Task-Parallel" ->
           /\ NodeIds(graph) = <<"BB_entry", "BB_parallel_start", "BB_for_start",
                                 "BB_task_create", "BB_task_work", "BB_sync",
                                 "BB_parallel_end", "BB_exit">>
           /\ FlowEdges(graph) = Chain(NodeIds(graph))
           /\ SelfLoops(graph) =
                 <<[src |-> "BB_task_create", dst |-> "BB_task_create", dashed |-> TRUE]>>
      [] a = "Parallel-For" ->
           /\ Len(graph.nodes) = 7
           /\ FlowEdges(graph) = Chain(NodeIds(graph))
           /\ SelfLoops(graph) =
                 <<[src |-> "BB_loop_body", dst |-> "BB_loop_body", dashed |-> TRUE]>>
      [] a = "Basic-Sequential" ->
           /\ Len(graph.nodes) = 3
           /\ Len(graph.edges) = 2
           /\ SelfLoops(graph) = <<>>

\* C6: the graph chosen has the fixed shape of the archetype the decision table
\* gives, whatever the lines and flags of the inventory: 15 nodes and a dashed
\* self-loop on each of the three task nodes (SparseLU-specific); the 8-node
\* chain entry, parallel-start, loop-start, task-create, task-work, sync,
\* parallel-end, exit with one dashed self-loop on task-create (Task-Parallel);
\* a 7-node chain with one dashed self-loop on loop-body (Parallel-For); 3
\* nodes, 2 edges and no self-loop (Basic-Sequential).
C6_FixedShapes ==
    pc = "validate" =>
        /\ cfg_dot \in Graphs
        /\ ShapeOf(Archetype, GraphOf[cfg_dot])

\* A Task-Parallel text whose task is untied got the 8-node graph.
C6_Witness ==
    /\ pc = "validate"
    /\ Archetype = "Task-Parallel"
    /\ \E k \in 1..Len(constructs.tasks) : constructs.tasks[k].untied
    /\ Len(GraphOf[cfg_dot].nodes) = 8

\* C7: the report on the graph of Task-Parallel, Parallel-For or
\* SparseLU-specific has parallel_regions_detected and has_edges; on Task-Parallel
\* and SparseLU-specific also tasks_detected; on the Basic-Sequential graph it
\* has has_edges and not tasks_detected.
C7_ReportsOnGraphs ==
    pc = "save" =>
        /\ Archetype \in {"Task-Parallel", "Parallel-For", "SparseLU-specific"}
             => (validation.parallel_regions_detected /\ validation.has_edges)
        /\ Archetype \in {"Task-Parallel", "SparseLU-specific"}
             => validation.tasks_detected
        /\ Archetype = "Basic-Sequential"
             => (validation.has_edges /\ ~validation.tasks_detected)

\* The Parallel-For graph was validated.
C7_Witness ==
    /\ pc = "save"
    /\ Archetype = "Parallel-For"
    /\ validation.parallel_regions_detected
    /\ validation.has_edges

\* C8: the report on the graph of each of the four archetypes has
\* valid_dot_syntax.
C8_GraphsHaveValidSyntax ==
    pc = "save" =>
        /\ cfg_dot = GraphOfArchetype[Archetype]
        /\ validation.valid_dot_syntax

\* The SparseLU-specific graph was validated.
C8_Witness ==
    /\ pc = "save"
    /\ cfg_dot = generate_sparselu_cfg
    /\ validation.valid_dot_syntax

\* The braces of the text nest: no prefix closes more than it opens, and the
\* whole text closes all it opens.
BracesBalanced(text) ==
    LET depth(i) == Count("{", SubSeq(text, 1, i)) - Count("}", SubSeq(text, 1, i))
    IN  (\A i \in 1..Len(text) : depth(i) >= 0) /\ depth(Len(text)) = 0

\* The keyword digraph occurs somewhere in the text.
KeywordOccurs(text) == \E i \in 1..(Len(text) - 6) : SubSeq(text, i, i + 6) = "digraph"

\* The text has as many opening as closing braces.
SameBraceCounts(text) ==
    Cardinality({i \in 1..Len(text) : SubSeq(text, i, i) = "{"})
        = Cardinality({i \in 1..Len(text) : SubSeq(text, i, i) = "}"})

\* C9 as stated: valid_dot_syntax is true exactly when the text starts with the
\* keyword digraph and its braces are balanced.
C9_AsStated ==
    pc = "save" =>
        (validation.valid_dot_syntax
            <=> (StartsWith("digraph", cfg_dot) /\ BracesBalanced(cfg_dot)))

\* C9, amended: valid_dot_syntax is true exactly when the keyword digraph
\* occurs anywhere in the text and the text has as many opening as closing
\* braces, in whatever order; it is false in every other case.
C9_ValidSyntaxExactly ==
    pc = "save" =>
        (validation.valid_dot_syntax
            <=> (KeywordOccurs(cfg_dot) /\ SameBraceCounts(cfg_dot)))

\* A text that neither starts with the keyword nor nests its braces was found
\* valid.
C9_Witness ==
    /\ pc = "save"
    /\ validation.valid_dot_syntax
    /\ ~StartsWith("digraph", cfg_dot)
    /\ ~BracesBalanced(cfg_dot)

\* What a step of main may do from extract on.
C10_Step ==
    /\ pc = "extract" => pc' = "generate"
    /\ pc = "generate" => pc' = "validate"
    /\ pc = "validate" => pc' = "save"
    /\ pc = "save" =>
          /\ pc' = "exit"
          /\ \/ exit_status' = 0 /\ dot_file' = cfg_dot
             \/ exit_status' = 1 /\ dot_file' = ""
    /\ pc' = "generate" => pc = "extract"
    /\ pc' = "validate" => pc = "generate"
    /\ pc' = "save" => pc = "validate"

\* C10: in a run whose input was read and is not empty, the steps come in the
\* order extract, generate, validate, save; validate can always be taken and
\* leads to save whatever its report, and save can always be taken and ends the
\* run, with status 0 and the chosen graph in the DOT file unless writing that
\* file raised.
C10_ValidationNeverStopsTheRun ==
    /\ [](pc = "validate" => ENABLED Validate)
    /\ [](pc = "save" => ENABLED Save)
    /\ [][C10_Step]_vars

\* A run whose report has failing predicates saved its graph and returned 0.
C10_Witness ==
    /\ pc = "exit"
    /\ exit_status = 0
    /\ validation.has_edges
    /\ ~validation.parallel_regions_detected
    /\ ~validation.sync_points_detected
    /\ dot_file = cfg_dot

\* A run of main that wrote the DOT file: save_cfg went on to its methods.
DotWritten == pc = "exit" /\ dot_file # ""

\* The methods that were tried and raised nothing.
Succeeded == Methods(attempted) \ raised

\* C11: once the DOT file is written, the methods tried are the first ones of
\* graphviz, dot, matplotlib, text in that order; a method is tried exactly
\* when every method before it raised, so at most one raises nothing; the PNG
\* flag and the text file say which one it was; and whichever methods raised,
\* all four included, the DOT file holds the graph and main returns 0.
C11_FallbackOrder ==
    DotWritten =>
        /\ Len(attempted) \in 1..Len(Renderers)
        /\ attempted = SubSeq(Renderers, 1, Len(attempted))
        /\ \A k \in DOMAIN Renderers :
              Renderers[k] \in Methods(attempted)
                  <=> \A j \in 1..(k - 1) : Renderers[j] \in raised
        /\ raised \subseteq Methods(attempted)
        /\ Cardinality(Succeeded) <= 1
        /\ png_generated <=> Succeeded \cap Methods(SubSeq(Renderers, 1, 3)) # {}
        /\ txt_saved <=> Renderers[4] \in Succeeded
        /\ dot_file = cfg_dot
        /\ exit_status = 0

\* All four methods were tried and raised, and the run still returned 0.
C11_Witness ==
    /\ DotWritten
    /\ attempted = Renderers
    /\ raised = Methods(Renderers)
    /\ ~png_generated
    /\ ~txt_saved
    /\ exit_status = 0

\* No path occurs twice in a list of paths.
NoDuplicates(paths) == \A a, b \in DOMAIN paths : paths[a] = paths[b] => a = b

\* How many files so far got one of these lines printed.
OutcomeCount(lines) == Cardinality({k \in DOMAIN outcomes : outcomes[k] \in lines})

\* The batch's books while and after the loop runs.
C12_Books ==
    openmp_files # <<>> =>
        /\ NoDuplicates(openmp_files)
        /\ processed = SubSeq(openmp_files, 1, Len(processed))
        /\ success_count = OutcomeCount({"success"})
        /\ fail_count = OutcomeCount({"failed", "unexpected"})
        /\ batch_pc = "loop" =>
              /\ Len(outcomes) = Len(processed)
              /\ file_index = Len(processed) + 1
              /\ ENABLED (StartUnit \/ Finish)
        /\ batch_pc = "wait" =>
              /\ Len(outcomes) + 1 = Len(processed)
              /\ file_index = Len(processed)
              /\ pc = "exit" => ENABLED FinishUnit
        /\ batch_pc = "done" =>
              /\ processed = openmp_files
              /\ Len(outcomes) = Len(openmp_files)
              /\ success_count + fail_count = Len(openmp_files)

\* What a step of the batch may do to the loop.
C12_Step ==
    /\ openmp_files # <<>> => openmp_files' = openmp_files
    /\ Len(outcomes') > Len(outcomes) =>
          /\ batch_pc' = "loop"
          /\ file_index' = file_index + 1
          /\ success_count' + fail_count' = success_count + fail_count + 1
    /\ batch_pc' = "done" /\ batch_pc = "loop" => file_index > Len(openmp_files)

\* C12: in a batch over a list that is not empty, the files launched are at
\* every moment the first ones of the list in its order, none twice; a file
\* that fails, whether cfg_generator.py returned nonzero or could not be run,
\* adds one to fail_count and the loop moves to the next file; the loop ends
\* only past the last file, and then every file was launched and
\* success_count + fail_count is the length of the list.
C12_EveryUnitProcessed ==
    /\ []C12_Books
    /\ [][C12_Step]_vars

\* A batch that ended after a file that failed, one that could not be run and
\* one that succeeded, in some order with a failure first.
C12_Witness ==
    /\ batch_pc = "done"
    /\ Len(openmp_files) >= 2
    /\ processed = openmp_files
    /\ outcomes[1] \in {"failed", "unexpected"}
    /\ outcomes[Len(outcomes)] = "success"
    /\ success_count + fail_count = Len(openmp_files)

\* The line printed for a file cfg_generator.py ran on follows its return code.
C13_Step ==
    batch_pc = "wait" /\ Len(outcomes') > Len(outcomes) =>
        (outcomes'[Len(outcomes')] = "success" <=> exit_status = 0)

\* The return value once the batch is over.
C13_Status ==
    /\ batch_pc # "done" => batch_status = -1
    /\ batch_pc = "done" =>
          /\ batch_status \in {0, 1}
          /\ batch_status = 0 <=> \E k \in DOMAIN outcomes : outcomes[k] = "success"
          /\ batch_status = 0 <=> success_count >= 1
          /\ openmp_files = <<>> => batch_status = 1
          /\ success_count = 0 => batch_status = 1

\* C13: the batch returns 0 exactly when at least one discovered file had
\* cfg_generator.py return 0, which is when success_count >= 1; it returns 1
\* when nothing was discovered and when every file failed; the number of
\* failures plays no part.
C13_BatchStatus ==
    /\ []C13_Status
    /\ [][C13_Step]_vars

\* A batch that returned 0 with one success and at least one failure.
C13_Witness ==
    /\ batch_pc = "done"
    /\ batch_status = 0
    /\ success_count = 1
    /\ fail_count >= 1

=============================================================================
